---- MODULE Spec2Model ----
(***************************************************************************)
(* A state-machine model of package tcp (src/tcp/tcp.go): the accept loop  *)
(* of Listen / ListenWithListener with its per-connection goroutines and   *)
(* its cancellation watcher, and the retry loop of Dial; and of package    *)
(* cast (src/unnamed/part_000): Cast and AcceptCast.                       *)
(*                                                                         *)
(* One behaviour is one call of one entry point (variable entry), made     *)
(* with one choice of its arguments; the context, the network and the      *)
(* caller-supplied callbacks are the environment.                          *)
(***************************************************************************)
EXTENDS Naturals, Sequences, FiniteSets

\* ---------------------------------------------------------------- bounds
\* Connections the network offers to one Listen call.
MaxConns == 2
\* Transient Accept errors (listener still open) in one Listen call.
MaxAcceptErrs == 2
\* Dial attempts explored in one Dial call.
MaxAttempts == 3
\* Largest duration (in clock ticks) a caller's timeout function returns.
MaxBackoff == 2

\* time.Second on the model's discrete clock: one tick.
Second == 1

Conns == 1..MaxConns
Attempts == 1..MaxAttempts

\* The values of ctx.Err() once the context is done.
Causes == {"Canceled", "DeadlineExceeded"}

VARIABLES
    entry,          \* the entry point called: "Listen", "ListenWithListener",
                    \* "Dial", "Cast" or "AcceptCast"
    handleNil,      \* argument handle == nil
    allowNil,       \* argument allow == nil
    timeoutNil,     \* argument timeout == nil
    ctxErr,         \* ctx.Err(): "none" until the context is done
    crashed,        \* an unrecovered panic has ended the process
    ret,            \* what the entry point returned: an error with the errors it
                    \* wraps, <<"nil">>, or <<"pending">> until it returns
    reported,       \* the errors handleErr was called with, in order; a nil
                    \* handleErr is replaced by a function that does nothing,
                    \* and is called all the same
    listener,       \* "unbound", "open" or "closed"
    lCloseCalls,    \* calls of listener.Close()
    lpc,            \* where the Listen / ListenWithListener call is
    wpc,            \* where Listen's watcher goroutine is
    nconn,          \* connections Accept has returned; the last is conn
    lateAccepts,    \* those of them Accept returned when the context was done
    acceptFails,    \* Accept calls that returned an error
    status,         \* per connection: "none", "admit", "reject"
    cleanup,        \* per connection: allow returned a non-nil cleanup
    gpc,            \* per connection: where its goroutine is
    handleCalls,    \* per connection: calls of handle(conn)
    closeCalls,     \* per connection: calls of conn.Close()
    cleanupCalls,   \* per connection: calls of cleanup()
    panicked,       \* per connection: handle(conn) panicked
    dpc,            \* where the Dial call is
    attempt,        \* Dial's loop variable
    timeoutCalls,   \* the arguments timeout was called with, in order
    durations,      \* the durations these calls returned, in order
    now,            \* the clock
    dialDeadline,   \* the deadline of dialCtx
    starts,         \* the clock at the start of each dial attempt
    results,        \* what each DialContext call returned: "conn" or its error
    dHandleCalls,   \* calls of handle(conn) made by Dial
    dCloseCalls,    \* calls of conn.Close() made by Dial
    dPanicked,      \* Dial's handle(conn) panicked
    dCloseErr,      \* what Dial's conn.Close() returned, "none" before the call
    cpc,            \* where the Cast / AcceptCast call is
    to,             \* argument to
    body,           \* argument body
    me,             \* caster.me
    lookErr,        \* the error caster.dht.PeerAddress(to) returned, or "none"
    peerAddr,       \* the address it returned: <<>> for nil, or <<peer, network address>>
    sinkReady,      \* the channel the call sends on can take a value now
    messages,       \* what was sent on caster.messages, in order
    events          \* what was sent on caster.events, in order

argVars == <<entry, handleNil, allowNil, timeoutNil>>
envVars == <<ctxErr, crashed, ret, reported>>
loopVars == <<listener, lCloseCalls, lpc, wpc, nconn, lateAccepts, acceptFails>>
connVars == <<status, cleanup, gpc, handleCalls, closeCalls, cleanupCalls, panicked>>
dialVars == <<dpc, attempt, timeoutCalls, durations, now, dialDeadline, starts, results,
              dHandleCalls, dCloseCalls, dPanicked, dCloseErr>>
castVars == <<cpc, to, body, me, lookErr, peerAddr, sinkReady, messages, events>>
vars == <<argVars, envVars, loopVars, connVars, dialVars, castVars>>

\* ------------------------------------------------------------ initial state
NoConns ==
    /\ nconn = 0
    /\ lateAccepts = 0
    /\ acceptFails = 0
    /\ status = [c \in Conns |-> "none"]
    /\ cleanup = [c \in Conns |-> FALSE]
    /\ gpc = [c \in Conns |-> "none"]
    /\ handleCalls = [c \in Conns |-> 0]
    /\ closeCalls = [c \in Conns |-> 0]
    /\ cleanupCalls = [c \in Conns |-> 0]
    /\ panicked = [c \in Conns |-> FALSE]

NoDial ==
    /\ attempt = 0
    /\ timeoutCalls = <<>>
    /\ durations = <<>>
    /\ now = 0
    /\ dialDeadline = 0
    /\ starts = <<>>
    /\ results = <<>>
    /\ dHandleCalls = 0
    /\ dCloseCalls = 0
    /\ dPanicked = FALSE
    /\ dCloseErr = "none"

\* The peers, message bodies and network addresses of the model.
Peers == {"P", "X"}
Bodies == {"hello", "bye"}
NetAddrs == {"A", "B"}

NoCast ==
    /\ cpc = "none"
    /\ to = "P"
    /\ body = "hello"
    /\ me = "P"
    /\ lookErr = "none"
    /\ peerAddr = <<>>
    /\ sinkReady = FALSE
    /\ messages = <<>>
    /\ events = <<>>

InitListen ==
    /\ NoCast
    /\ entry \in {"Listen", "ListenWithListener"}
    /\ handleNil \in BOOLEAN
    /\ allowNil \in BOOLEAN
    /\ timeoutNil = TRUE
    /\ listener = IF entry = "Listen" THEN "unbound" ELSE "open"
    /\ lpc = IF entry = "Listen" THEN "bind" ELSE "lwl"
    /\ dpc = "none"

InitDial ==
    /\ NoCast
    /\ entry = "Dial"
    /\ handleNil \in BOOLEAN
    /\ allowNil = TRUE
    /\ timeoutNil \in BOOLEAN
    /\ listener = "unbound"
    /\ lpc = "none"
    /\ dpc = "start"

InitCall ==
    /\ ctxErr = "none"
    /\ crashed = FALSE
    /\ ret = <<"pending">>
    /\ reported = <<>>
    /\ lCloseCalls = 0
    /\ wpc = "none"
    /\ NoConns
    /\ NoDial

\* NewCaster(dht, messages, events, me), and a call of Cast or AcceptCast.
InitCast ==
    /\ entry \in {"Cast", "AcceptCast"}
    /\ handleNil = FALSE
    /\ allowNil = TRUE
    /\ timeoutNil = TRUE
    /\ listener = "unbound"
    /\ lpc = "none"
    /\ dpc = "none"
    /\ cpc = IF entry = "Cast" THEN "lookup" ELSE "accept"
    /\ to \in Peers
    /\ body \in Bodies
    /\ me \in Peers
    /\ lookErr = "none"
    /\ peerAddr = <<>>
    /\ sinkReady \in BOOLEAN
    /\ messages = <<>>
    /\ events = <<>>

ListenInit == InitCall /\ InitListen

CastInit == InitCall /\ InitCast

DialInit == InitCall /\ InitDial

Init == ListenInit \/ DialInit \/ CastInit

\* ------------------------------------------------------------- environment
\* The context finishes: cancel() is called, or its deadline passes.
Cancel ==
    /\ ~crashed
    /\ ctxErr = "none"
    /\ \E cause \in Causes : ctxErr' = cause
    /\ UNCHANGED <<argVars, castVars, crashed, ret, reported, loopVars, connVars, dialVars>>

\* ------------------------------------------------------------------ Listen
\* net.ListenConfig.Listen fails: Listen returns the error.
BindFail ==
    /\ ~crashed
    /\ lpc = "bind"
    /\ lpc' = "done"
    /\ ret' = <<"bind error">>
    /\ UNCHANGED <<argVars, castVars, ctxErr, crashed, reported, listener, lCloseCalls, wpc,
                   nconn, lateAccepts, acceptFails, connVars, dialVars>>

\* net.ListenConfig.Listen succeeds: the watcher goroutine is started and
\* ListenWithListener is called.
Bind ==
    /\ ~crashed
    /\ lpc = "bind"
    /\ listener' = "open"
    /\ wpc' = "waiting"
    /\ lpc' = "lwl"
    /\ UNCHANGED <<argVars, castVars, envVars, lCloseCalls, nconn, lateAccepts, acceptFails,
                   connVars, dialVars>>

\* A watcher that waits for the context and leaves the listener open.
WatcherNoClose ==
    /\ ~crashed
    /\ wpc = "waiting"
    /\ ctxErr # "none"
    /\ wpc' = "done"
    /\ UNCHANGED <<argVars, castVars, envVars, listener, lCloseCalls, lpc, nconn, lateAccepts,
                   acceptFails,
                   connVars, dialVars>>

\* The watcher goroutine: <-ctx.Done(); listener.Close().
WatcherClose ==
    /\ ~crashed
    /\ wpc = "waiting"
    /\ ctxErr # "none"
    /\ listener' = "closed"
    /\ lCloseCalls' = lCloseCalls + 1
    /\ wpc' = "done"
    /\ UNCHANGED <<argVars, castVars, envVars, lpc, nconn, lateAccepts, acceptFails, connVars,
                   dialVars>>

\* ListenWithListener, before its loop: a nil handle is an error, returned
\* before the listener's Close is deferred.
NilHandle ==
    /\ ~crashed
    /\ lpc = "lwl"
    /\ handleNil
    /\ lpc' = "done"
    /\ ret' = <<"nil handle function">>
    /\ UNCHANGED <<argVars, castVars, ctxErr, crashed, reported, listener, lCloseCalls, wpc,
                   nconn, lateAccepts, acceptFails, connVars, dialVars>>

EnterLoop ==
    /\ ~crashed
    /\ lpc = "lwl"
    /\ ~handleNil
    /\ lpc' = "check"
    /\ UNCHANGED <<argVars, castVars, envVars, listener, lCloseCalls, wpc, nconn, lateAccepts,
                   acceptFails,
                   connVars, dialVars>>

\* select { case <-ctx.Done(): return ctx.Err(); default: }
CheckDone ==
    /\ ~crashed
    /\ lpc = "check"
    /\ ctxErr # "none"
    /\ ret' = <<ctxErr>>
    /\ lpc' = "closing"
    /\ UNCHANGED <<argVars, castVars, ctxErr, crashed, reported, listener, lCloseCalls, wpc,
                   nconn, lateAccepts, acceptFails, connVars, dialVars>>

\* An accept loop whose check goes on to Accept although the context is done.
CheckIgnoresDone ==
    /\ ~crashed
    /\ lpc = "check"
    /\ lpc' = "accept"
    /\ UNCHANGED <<argVars, castVars, envVars, listener, lCloseCalls, wpc, nconn, lateAccepts,
                   acceptFails, connVars, dialVars>>

CheckNotDone ==
    /\ ~crashed
    /\ lpc = "check"
    /\ ctxErr = "none"
    /\ lpc' = "accept"
    /\ UNCHANGED <<argVars, castVars, envVars, listener, lCloseCalls, wpc, nconn, lateAccepts,
                   acceptFails,
                   connVars, dialVars>>

\* A ListenWithListener that returns without closing its listener.
LoopExitNoClose ==
    /\ ~crashed
    /\ lpc = "closing"
    /\ lpc' = "done"
    /\ UNCHANGED <<argVars, castVars, envVars, listener, lCloseCalls, wpc, nconn, lateAccepts,
                   acceptFails,
                   connVars, dialVars>>

\* The deferred listener.Close() of ListenWithListener, run as it returns.
LoopExitClose ==
    /\ ~crashed
    /\ lpc = "closing"
    /\ listener' = "closed"
    /\ lCloseCalls' = lCloseCalls + 1
    /\ lpc' = "done"
    /\ UNCHANGED <<argVars, castVars, envVars, wpc, nconn, lateAccepts, acceptFails, connVars,
                   dialVars>>

\* An accept loop that calls handle itself and waits for it.
SpawnInline(c, cl) ==
    /\ status' = [status EXCEPT ![c] = "admit"]
    /\ cleanup' = [cleanup EXCEPT ![c] = cl]
    /\ gpc' = [gpc EXCEPT ![c] = "spawned"]
    /\ lpc' = "handling"

\* go func() { defer conn.Close(); [defer cleanup;] handle(conn) }()
Spawn(c, cl) ==
    /\ status' = [status EXCEPT ![c] = "admit"]
    /\ cleanup' = [cleanup EXCEPT ![c] = cl]
    /\ gpc' = [gpc EXCEPT ![c] = "spawned"]
    /\ lpc' = "check"

\* listener.Accept() returns a connection; with allow == nil it is admitted.
AcceptConn ==
    /\ ~crashed
    /\ lpc = "accept"
    /\ listener = "open"
    /\ nconn < MaxConns
    /\ nconn' = nconn + 1
    /\ lateAccepts' = lateAccepts + (IF ctxErr # "none" THEN 1 ELSE 0)
    /\ IF allowNil
         THEN Spawn(nconn + 1, FALSE)
         ELSE /\ lpc' = "policy"
              /\ UNCHANGED <<status, cleanup, gpc>>
    /\ UNCHANGED <<argVars, castVars, envVars, listener, lCloseCalls, wpc, acceptFails,
                   handleCalls, closeCalls, cleanupCalls, panicked, dialVars>>

\* listener.Accept() returns an error although the listener is open.
AcceptTransient ==
    /\ ~crashed
    /\ lpc = "accept"
    /\ listener = "open"
    /\ acceptFails < MaxAcceptErrs
    /\ acceptFails' = acceptFails + 1
    /\ lpc' = "report"
    /\ UNCHANGED <<argVars, castVars, envVars, listener, lCloseCalls, wpc, nconn, lateAccepts,
                   connVars, dialVars>>

\* listener.Accept() on a closed listener returns an error.
AcceptClosed ==
    /\ ~crashed
    /\ lpc = "accept"
    /\ listener = "closed"
    /\ acceptFails' = acceptFails + 1
    /\ lpc' = "report"
    /\ UNCHANGED <<argVars, castVars, envVars, listener, lCloseCalls, wpc, nconn, lateAccepts,
                   connVars, dialVars>>

\* An accept loop that reports the Accept error and returns it.
ReportAcceptErrorFatal ==
    /\ ~crashed
    /\ lpc = "report"
    /\ reported' = Append(reported, "accept connection")
    /\ ret' = <<"accept connection">>
    /\ lpc' = "closing"
    /\ UNCHANGED <<argVars, castVars, ctxErr, crashed, listener, lCloseCalls, wpc, nconn,
                   lateAccepts,
                   acceptFails, connVars, dialVars>>

\* handleErr(fmt.Errorf("accept connection: %w", err)); continue
ReportAcceptError ==
    /\ ~crashed
    /\ lpc = "report"
    /\ reported' = Append(reported, "accept connection")
    /\ lpc' = "check"
    /\ UNCHANGED <<argVars, castVars, ctxErr, crashed, ret, listener, lCloseCalls, wpc, nconn,
                   lateAccepts,
                   acceptFails, connVars, dialVars>>

\* allow(conn) returns a nil error: the connection is admitted.
PolicyAdmit ==
    /\ ~crashed
    /\ lpc = "policy"
    /\ \E cl \in BOOLEAN : Spawn(nconn, cl)
    /\ UNCHANGED <<argVars, castVars, envVars, listener, lCloseCalls, wpc, nconn, lateAccepts,
                   acceptFails,
                   handleCalls, closeCalls, cleanupCalls, panicked, dialVars>>

\* allow(conn) returns an error: the connection is rejected.
PolicyReject ==
    /\ ~crashed
    /\ lpc = "policy"
    /\ \E cl \in BOOLEAN : cleanup' = [cleanup EXCEPT ![nconn] = cl]
    /\ status' = [status EXCEPT ![nconn] = "reject"]
    /\ lpc' = "reject"
    /\ UNCHANGED <<argVars, castVars, envVars, listener, lCloseCalls, wpc, nconn, lateAccepts,
                   acceptFails,
                   gpc, handleCalls, closeCalls, cleanupCalls, panicked, dialVars>>

\* An accept loop that leaves a rejected connection open.
RejectNoClose ==
    /\ ~crashed
    /\ lpc = "reject"
    /\ lpc' = "check"
    /\ UNCHANGED <<argVars, castVars, envVars, listener, lCloseCalls, wpc, nconn, lateAccepts,
                   acceptFails,
                   connVars, dialVars>>

\* An accept loop that runs the cleanup function of a rejected connection.
RejectCloseAndCleanup ==
    /\ ~crashed
    /\ lpc = "reject"
    /\ closeCalls' = [closeCalls EXCEPT ![nconn] = @ + 1]
    /\ cleanupCalls' = [cleanupCalls EXCEPT ![nconn] = IF cleanup[nconn] THEN @ + 1 ELSE @]
    /\ lpc' = "check"
    /\ UNCHANGED <<argVars, castVars, envVars, listener, lCloseCalls, wpc, nconn, lateAccepts,
                   acceptFails, status, cleanup, gpc, handleCalls, panicked, dialVars>>

\* conn.Close() at the end of the loop body, reached only by a rejection.
RejectClose ==
    /\ ~crashed
    /\ lpc = "reject"
    /\ closeCalls' = [closeCalls EXCEPT ![nconn] = @ + 1]
    /\ lpc' = "check"
    /\ UNCHANGED <<argVars, castVars, envVars, listener, lCloseCalls, wpc, nconn, lateAccepts,
                   acceptFails,
                   status, cleanup, gpc, handleCalls, cleanupCalls, panicked, dialVars>>

\* ------------------------------------------- the goroutine of a connection
\* The goroutine starts running: handle(conn) is called.
GoHandle(c) ==
    /\ ~crashed
    /\ gpc[c] = "spawned"
    /\ handleCalls' = [handleCalls EXCEPT ![c] = @ + 1]
    /\ gpc' = [gpc EXCEPT ![c] = "handle"]
    /\ UNCHANGED <<argVars, castVars, envVars, loopVars, status, cleanup, closeCalls,
                   cleanupCalls, panicked, dialVars>>

\* The deferred calls run last-in first-out: with a policy the closure that
\* calls cleanup was deferred after conn.Close(), so it runs first.
AfterHandle == IF allowNil THEN "close" ELSE "cleanup"

\* handle(conn) returns.
GoHandleReturn(c) ==
    /\ ~crashed
    /\ gpc[c] = "handle"
    /\ gpc' = [gpc EXCEPT ![c] = AfterHandle]
    /\ UNCHANGED <<argVars, castVars, envVars, loopVars, status, cleanup, handleCalls,
                   closeCalls, cleanupCalls, panicked, dialVars>>

\* A goroutine that calls conn.Close() after handle(conn) instead of deferring
\* it: a panic of handle ends the goroutine, and the process, before the close.
GoHandlePanicNoDefer(c) ==
    /\ ~crashed
    /\ gpc[c] = "handle"
    /\ panicked' = [panicked EXCEPT ![c] = TRUE]
    /\ gpc' = [gpc EXCEPT ![c] = "done"]
    /\ crashed' = TRUE
    /\ UNCHANGED <<argVars, castVars, ctxErr, ret, reported, loopVars, status, cleanup,
                   handleCalls, closeCalls, cleanupCalls, dialVars>>

\* handle(conn) panics: the deferred calls run while the goroutine unwinds.
GoHandlePanic(c) ==
    /\ ~crashed
    /\ gpc[c] = "handle"
    /\ panicked' = [panicked EXCEPT ![c] = TRUE]
    /\ gpc' = [gpc EXCEPT ![c] = AfterHandle]
    /\ UNCHANGED <<argVars, castVars, envVars, loopVars, status, cleanup, handleCalls,
                   closeCalls, cleanupCalls, dialVars>>

\* defer func() { if cleanup != nil { cleanup() } }()
GoCleanup(c) ==
    /\ ~crashed
    /\ gpc[c] = "cleanup"
    /\ cleanupCalls' = [cleanupCalls EXCEPT ![c] = IF cleanup[c] THEN @ + 1 ELSE @]
    /\ gpc' = [gpc EXCEPT ![c] = "close"]
    /\ UNCHANGED <<argVars, castVars, envVars, loopVars, status, cleanup, handleCalls,
                   closeCalls, panicked, dialVars>>

\* defer conn.Close(); the goroutine ends, and a panic nobody recovered
\* ends the process.
GoClose(c) ==
    /\ ~crashed
    /\ gpc[c] = "close"
    /\ closeCalls' = [closeCalls EXCEPT ![c] = @ + 1]
    /\ gpc' = [gpc EXCEPT ![c] = "done"]
    /\ crashed' = panicked[c]
    /\ UNCHANGED <<argVars, castVars, ctxErr, ret, reported, loopVars, status, cleanup,
                   handleCalls, cleanupCalls, panicked, dialVars>>

\* -------------------------------------------------------------------- Dial
\* The durations timeout(k) can return: the caller's function is any function
\* of the attempt number, and is called once for each attempt; a nil timeout
\* is replaced by func(int) time.Duration { return time.Second }.
Timeout(k) == IF timeoutNil THEN {Second} ELSE 0..MaxBackoff

\* Time passes while Dial is blocked, in DialContext or on dialCtx.Done();
\* its other steps take no time on this clock. Dial may be late by a tick in
\* seeing that dialCtx's deadline has passed.
Tick ==
    /\ ~crashed
    /\ dpc \in {"dialing", "wait"}
    /\ now <= dialDeadline
    /\ now' = now + 1
    /\ UNCHANGED <<argVars, castVars, envVars, loopVars, connVars, dpc, attempt, timeoutCalls,
                   durations,
                   dialDeadline, starts, results, dHandleCalls, dCloseCalls, dPanicked,
                   dCloseErr>>

\* if handle == nil { return fmt.Errorf("nil handle function") }
DialNilHandle ==
    /\ ~crashed
    /\ dpc = "start"
    /\ handleNil
    /\ dpc' = "done"
    /\ ret' = <<"nil handle function">>
    /\ UNCHANGED <<argVars, castVars, ctxErr, crashed, reported, loopVars, connVars, attempt,
                   timeoutCalls, durations, now, dialDeadline, starts, results, dHandleCalls,
                   dCloseCalls, dPanicked,
                   dCloseErr>>

\* for attempt := 1; ...
DialEnterLoop ==
    /\ ~crashed
    /\ dpc = "start"
    /\ ~handleNil
    /\ attempt' = 1
    /\ dpc' = "check"
    /\ UNCHANGED <<argVars, castVars, envVars, loopVars, connVars, timeoutCalls, durations, now,
                   dialDeadline, starts, results, dHandleCalls, dCloseCalls, dPanicked,
                   dCloseErr>>

\* fmt.Errorf("dialing %w", cause): an error that wraps cause.
DialingErr(cause) == <<"dialing", cause>>

\* select { case <-ctx.Done(): return fmt.Errorf("dialing %w", ctx.Err()) ... }
DialCheckDone ==
    /\ ~crashed
    /\ dpc = "check"
    /\ ctxErr # "none"
    /\ ret' = DialingErr(ctxErr)
    /\ dpc' = "done"
    /\ UNCHANGED <<argVars, castVars, ctxErr, crashed, reported, loopVars, connVars, attempt,
                   timeoutCalls, durations, now, dialDeadline, starts, results, dHandleCalls,
                   dCloseCalls, dPanicked,
                   dCloseErr>>

\* A loop that counts its attempts from zero.
TimeoutArgFromZero == attempt - 1

\* The argument the loop passes to timeout.
TimeoutArg == attempt

\* dialCtx, dialCancel := context.WithTimeout(ctx, timeout(attempt)), and the
\* call of dialer.DialContext(dialCtx, ...).
DialAttempt ==
    /\ ~crashed
    /\ dpc = "check"
    /\ ctxErr = "none"
    /\ attempt <= MaxAttempts
    /\ timeoutCalls' = Append(timeoutCalls, TimeoutArg)
    /\ \E d \in Timeout(TimeoutArg) :
          /\ durations' = Append(durations, d)
          /\ dialDeadline' = now + d
    /\ starts' = Append(starts, now)
    /\ dpc' = "dialing"
    /\ UNCHANGED <<argVars, castVars, envVars, loopVars, connVars, attempt, now, results,
                   dHandleCalls, dCloseCalls, dPanicked, dCloseErr>>

\* A Dial that closes the connection it obtained without calling handle.
DialSucceedNoHandle ==
    /\ ~crashed
    /\ dpc = "dialing"
    /\ ctxErr = "none"
    /\ now < dialDeadline
    /\ results' = Append(results, "conn")
    /\ dpc' = "close"
    /\ UNCHANGED <<argVars, castVars, envVars, loopVars, connVars, attempt, timeoutCalls,
                   durations, now, dialDeadline, starts, dHandleCalls, dCloseCalls,
                   dPanicked,
                   dCloseErr>>

\* DialContext returns a connection: dialCancel(), then handle(conn) is called.
DialSucceed ==
    /\ ~crashed
    /\ dpc = "dialing"
    /\ ctxErr = "none"
    /\ now < dialDeadline
    /\ results' = Append(results, "conn")
    /\ dHandleCalls' = dHandleCalls + 1
    /\ dpc' = "handle"
    /\ UNCHANGED <<argVars, castVars, envVars, loopVars, connVars, attempt, timeoutCalls,
                   durations, now,
                   dialDeadline, starts, dCloseCalls, dPanicked,
                   dCloseErr>>

\* The errors DialContext can return now: the target refuses, dialCtx's
\* deadline has passed, or ctx (dialCtx's parent) is done.
DialErrors ==
    IF ctxErr # "none" THEN {ctxErr}
    ELSE IF now >= dialDeadline THEN {"DeadlineExceeded"}
    ELSE {"refused"}

\* DialContext returns an error.
DialFail ==
    /\ ~crashed
    /\ dpc = "dialing"
    /\ \E e \in DialErrors : results' = Append(results, e)
    /\ dpc' = "report"
    /\ UNCHANGED <<argVars, castVars, envVars, loopVars, connVars, attempt, timeoutCalls,
                   durations, now,
                   dialDeadline, starts, dHandleCalls, dCloseCalls, dPanicked,
                   dCloseErr>>

\* handleErr(err)
DialReport ==
    /\ ~crashed
    /\ dpc = "report"
    /\ reported' = Append(reported, results[Len(results)])
    /\ dpc' = "wait"
    /\ UNCHANGED <<argVars, castVars, ctxErr, crashed, ret, loopVars, connVars, attempt,
                   timeoutCalls, durations, now, dialDeadline, starts, results, dHandleCalls,
                   dCloseCalls, dPanicked,
                   dCloseErr>>

\* A Dial that does not wait for dialCtx after a failed attempt.
DialCtxNoWait == TRUE

\* A dialCtx made from context.Background(): only its own deadline ends it.
DialCtxDetached == now >= dialDeadline

\* dialCtx is done: its deadline has passed, or its parent ctx is done.
DialCtxDone == now >= dialDeadline \/ ctxErr # "none"

\* <-dialCtx.Done(); dialCancel(); continue
DialWaitDone ==
    /\ ~crashed
    /\ dpc = "wait"
    /\ DialCtxDone
    /\ attempt' = attempt + 1
    /\ dpc' = "check"
    /\ UNCHANGED <<argVars, castVars, envVars, loopVars, connVars, timeoutCalls, durations, now,
                   dialDeadline, starts, results, dHandleCalls, dCloseCalls, dPanicked,
                   dCloseErr>>

\* handle(conn) returns.
DialHandleReturn ==
    /\ ~crashed
    /\ dpc = "handle"
    /\ dpc' = "close"
    /\ UNCHANGED <<argVars, castVars, envVars, loopVars, connVars, attempt, timeoutCalls,
                   durations, now,
                   dialDeadline, starts, results, dHandleCalls, dCloseCalls, dPanicked,
                   dCloseErr>>

\* handle(conn) panics: the deferred close runs while Dial unwinds.
DialHandlePanic ==
    /\ ~crashed
    /\ dpc = "handle"
    /\ dPanicked' = TRUE
    /\ dpc' = "close"
    /\ UNCHANGED <<argVars, castVars, envVars, loopVars, connVars, attempt, timeoutCalls,
                   durations, now,
                   dialDeadline, starts, results, dHandleCalls, dCloseCalls,
                   dCloseErr>>

\* What conn.Close() can return.
CloseResults == {"nil", "close error"}

\* A Dial that returns nil whatever the deferred conn.Close() returned.
DialCloseErrDropped ==
    /\ ~crashed
    /\ dpc = "close"
    /\ dCloseCalls' = dCloseCalls + 1
    /\ \E e \in CloseResults : dCloseErr' = e
    /\ ret' = IF dPanicked THEN <<"panic">> ELSE <<"nil">>
    /\ dpc' = "done"
    /\ UNCHANGED <<argVars, castVars, ctxErr, crashed, reported, loopVars, connVars, attempt,
                   timeoutCalls, durations, now, dialDeadline, starts, results, dHandleCalls,
                   dPanicked>>

\* defer func() { err = conn.Close() }(): Dial returns what Close returned,
\* unless it is unwinding a panic, which goes on to Dial's caller.
DialClose ==
    /\ ~crashed
    /\ dpc = "close"
    /\ dCloseCalls' = dCloseCalls + 1
    /\ \E e \in CloseResults :
          /\ dCloseErr' = e
          /\ ret' = IF dPanicked THEN <<"panic">> ELSE <<e>>
    /\ dpc' = "done"
    /\ UNCHANGED <<argVars, castVars, ctxErr, crashed, reported, loopVars, connVars, attempt,
                   timeoutCalls, durations, now, dialDeadline, starts, results, dHandleCalls,
                   dPanicked>>

\* -------------------------------------------------------- Cast, AcceptCast
\* The errors caster.dht.PeerAddress can return.
LookupErrors == {"lookup error"}

\* peerAddr.NetworkAddress()
NetworkAddress(pa) == pa[2]

\* protocol.NewMessage(version, variant, body)
NewMessage(version, variant, b) == [Version |-> version, Variant |-> variant, Body |-> b]

\* A request whose destination is the peer's identity, not its address.
MessageSendToPeer(pa, b) == [To |-> pa[1], Message |-> NewMessage("V1", "Cast", b)]

\* protocol.MessageSend{To: peerAddr.NetworkAddress(), Message: ...}
MessageSend(pa, b) ==
    [To |-> NetworkAddress(pa), Message |-> NewMessage("V1", "Cast", b)]

\* protocol.EventMessageReceived{Time: time.Now(), Message: body}
EventMessageReceived(t, b) == [Time |-> t, Message |-> b]

\* The text of an error: what err.Error() returns.
ErrorText(err) ==
    CASE err = "Canceled" -> "context canceled"
      [] err = "DeadlineExceeded" -> "context deadline exceeded"
      [] OTHER -> err

\* newErrCastingMessage(peerID, err): the peer, and an error whose text is
\* "error casting to peer=<peerID>: <err>".
ErrCastingMessage(peerID, err) ==
    <<"ErrCastingMessage", peerID, <<"error casting to peer=", peerID, ": ", ErrorText(err)>>>>

\* The sink starts or stops being able to take a value: its reader is
\* waiting or not, its buffer has room or not.
SinkChange ==
    /\ cpc \in {"lookup", "accept", "select"}
    /\ sinkReady' = ~sinkReady
    /\ UNCHANGED <<argVars, envVars, loopVars, connVars, dialVars, cpc, to, body, me,
                   lookErr, peerAddr, messages, events>>

\* A Cast that reports a lookup error as a nil address.
CastLookupFailAsNil ==
    /\ cpc = "lookup"
    /\ \E e \in LookupErrors, pa \in {<<>>} \cup {<<to, a>> : a \in NetAddrs} :
          /\ lookErr' = e
          /\ peerAddr' = pa
    /\ ret' = ErrCastingMessage(to, "nil peer address")
    /\ cpc' = "done"
    /\ UNCHANGED <<argVars, ctxErr, crashed, reported, loopVars, connVars, dialVars,
                   to, body, me, sinkReady, messages, events>>

\* caster.dht.PeerAddress(to) returns an error.
CastLookupFail ==
    /\ cpc = "lookup"
    /\ \E e \in LookupErrors, pa \in {<<>>} \cup {<<to, a>> : a \in NetAddrs} :
          /\ lookErr' = e
          /\ peerAddr' = pa
          /\ ret' = ErrCastingMessage(to, e)
    /\ cpc' = "done"
    /\ UNCHANGED <<argVars, ctxErr, crashed, reported, loopVars, connVars, dialVars,
                   to, body, me, sinkReady, messages, events>>

\* caster.dht.PeerAddress(to) returns no error and a nil address.
CastAddrNil ==
    /\ cpc = "lookup"
    /\ lookErr' = "none"
    /\ peerAddr' = <<>>
    /\ ret' = ErrCastingMessage(to, "nil peer address")
    /\ cpc' = "done"
    /\ UNCHANGED <<argVars, ctxErr, crashed, reported, loopVars, connVars, dialVars,
                   to, body, me, sinkReady, messages, events>>

\* caster.dht.PeerAddress(to) returns an address: the request is built and
\* Cast reaches its select.
CastResolved ==
    /\ cpc = "lookup"
    /\ lookErr' = "none"
    /\ \E a \in NetAddrs : peerAddr' = <<to, a>>
    /\ cpc' = "select"
    /\ UNCHANGED <<argVars, envVars, loopVars, connVars, dialVars, to, body, me,
                   sinkReady, messages, events>>

\* A select with a default case: Cast fails when the sink cannot take the
\* request at once.
CastFailWhenFull ==
    /\ cpc = "select"
    /\ entry = "Cast"
    /\ ctxErr # "none" \/ ~sinkReady
    /\ ret' = ErrCastingMessage(to, ctxErr)
    /\ cpc' = "done"
    /\ UNCHANGED <<argVars, ctxErr, crashed, reported, loopVars, connVars, dialVars,
                   to, body, me, lookErr, peerAddr, sinkReady, messages, events>>

\* case <-ctx.Done(): return newErrCastingMessage(to, ctx.Err())
CastCancelled ==
    /\ cpc = "select"
    /\ entry = "Cast"
    /\ ctxErr # "none"
    /\ ret' = ErrCastingMessage(to, ctxErr)
    /\ cpc' = "done"
    /\ UNCHANGED <<argVars, ctxErr, crashed, reported, loopVars, connVars, dialVars,
                   to, body, me, lookErr, peerAddr, sinkReady, messages, events>>

\* A Cast that sends its request twice.
CastSendTwice ==
    /\ cpc = "select"
    /\ entry = "Cast"
    /\ sinkReady
    /\ messages' = messages \o <<MessageSend(peerAddr, body), MessageSend(peerAddr, body)>>
    /\ ret' = <<"nil">>
    /\ cpc' = "done"
    /\ UNCHANGED <<argVars, ctxErr, crashed, reported, loopVars, connVars, dialVars,
                   to, body, me, lookErr, peerAddr, sinkReady, events>>

\* case caster.messages <- send: return nil
CastSend ==
    /\ cpc = "select"
    /\ entry = "Cast"
    /\ sinkReady
    /\ messages' = Append(messages, MessageSend(peerAddr, body))
    /\ ret' = <<"nil">>
    /\ cpc' = "done"
    /\ UNCHANGED <<argVars, ctxErr, crashed, reported, loopVars, connVars, dialVars,
                   to, body, me, lookErr, peerAddr, sinkReady, events>>

\* An AcceptCast that takes every cast as its own.
AcceptsAll == TRUE

\* to.Equal(caster.me)
IsMe == to = me

\* if to.Equal(caster.me) { event := ...; select ... }
AcceptLocal ==
    /\ cpc = "accept"
    /\ IsMe
    /\ cpc' = "select"
    /\ UNCHANGED <<argVars, envVars, loopVars, connVars, dialVars, to, body, me,
                   lookErr, peerAddr, sinkReady, messages, events>>

\* return newErrCastingMessage(to, fmt.Errorf("no peer available for forwarding"))
AcceptNotLocal ==
    /\ cpc = "accept"
    /\ ~IsMe
    /\ ret' = ErrCastingMessage(to, "no peer available for forwarding")
    /\ cpc' = "done"
    /\ UNCHANGED <<argVars, ctxErr, crashed, reported, loopVars, connVars, dialVars,
                   to, body, me, lookErr, peerAddr, sinkReady, messages, events>>

\* case <-ctx.Done(): return newErrCastingMessage(to, ctx.Err())
AcceptCancelled ==
    /\ cpc = "select"
    /\ entry = "AcceptCast"
    /\ ctxErr # "none"
    /\ ret' = ErrCastingMessage(to, ctxErr)
    /\ cpc' = "done"
    /\ UNCHANGED <<argVars, ctxErr, crashed, reported, loopVars, connVars, dialVars,
                   to, body, me, lookErr, peerAddr, sinkReady, messages, events>>

\* case caster.events <- event: return nil
AcceptSend ==
    /\ cpc = "select"
    /\ entry = "AcceptCast"
    /\ sinkReady
    /\ events' = Append(events, EventMessageReceived(now, body))
    /\ ret' = <<"nil">>
    /\ cpc' = "done"
    /\ UNCHANGED <<argVars, ctxErr, crashed, reported, loopVars, connVars, dialVars,
                   to, body, me, lookErr, peerAddr, sinkReady, messages>>

\* ----------------------------------------------------------- specification
\* A call of Listen or of ListenWithListener.
NextListen ==
    \/ Cancel
    \/ BindFail
    \/ Bind
    \/ WatcherClose
    \/ NilHandle
    \/ EnterLoop
    \/ CheckDone
    \/ CheckNotDone
    \/ LoopExitClose
    \/ AcceptConn
    \/ AcceptTransient
    \/ AcceptClosed
    \/ ReportAcceptError
    \/ PolicyAdmit
    \/ PolicyReject
    \/ RejectClose
    \/ \E c \in Conns : GoHandle(c)
    \/ \E c \in Conns : GoHandleReturn(c)
    \/ \E c \in Conns : GoHandlePanic(c)
    \/ \E c \in Conns : GoCleanup(c)
    \/ \E c \in Conns : GoClose(c)

\* A call of Dial.
NextDial ==
    \/ Cancel
    \/ Tick
    \/ DialNilHandle
    \/ DialEnterLoop
    \/ DialCheckDone
    \/ DialAttempt
    \/ DialSucceed
    \/ DialFail
    \/ DialReport
    \/ DialWaitDone
    \/ DialHandleReturn
    \/ DialHandlePanic
    \/ DialClose

\* A call of Cast or of AcceptCast.
NextCast ==
    \/ Cancel
    \/ SinkChange
    \/ CastLookupFail
    \/ CastAddrNil
    \/ CastResolved
    \/ CastCancelled
    \/ CastSend
    \/ AcceptLocal
    \/ AcceptNotLocal
    \/ AcceptCancelled
    \/ AcceptSend

Next == NextListen \/ NextDial \/ NextCast

Spec == Init /\ [][Next]_vars

ListenSpec == ListenInit /\ [][NextListen]_vars

DialSpec == DialInit /\ [][NextDial]_vars

\* The steps the program takes by itself once they are possible: the Go
\* scheduler runs every runnable goroutine. Nothing is assumed of the
\* environment: the context may never finish, no connection may ever arrive,
\* a handle callback may never return, the clock may be as slow as it likes.
ListenFairness ==
    /\ WF_vars(Bind \/ BindFail)
    /\ WF_vars(WatcherClose)
    /\ WF_vars(NilHandle \/ EnterLoop)
    /\ WF_vars(CheckDone \/ CheckNotDone)
    /\ WF_vars(LoopExitClose)
    /\ WF_vars(AcceptClosed)
    /\ WF_vars(ReportAcceptError)
    /\ WF_vars(PolicyAdmit \/ PolicyReject)
    /\ WF_vars(RejectClose)
    /\ \A c \in Conns : WF_vars(GoHandle(c) \/ GoCleanup(c) \/ GoClose(c))

DialFairness ==
    /\ WF_vars(DialNilHandle \/ DialEnterLoop)
    /\ WF_vars(DialCheckDone \/ DialAttempt)
    /\ WF_vars(DialReport)
    /\ WF_vars(DialWaitDone)
    /\ WF_vars(DialClose)

CastSpec == CastInit /\ [][NextCast]_vars

\* A call that is not blocked goes on; in its select it takes a case that is
\* ready. Nothing is assumed of the context or of the sink.
CastFairness ==
    /\ WF_vars(CastLookupFail \/ CastAddrNil \/ CastResolved)
    /\ WF_vars(CastCancelled \/ CastSend)
    /\ WF_vars(AcceptLocal \/ AcceptNotLocal)
    /\ WF_vars(AcceptCancelled \/ AcceptSend)

FairCastSpec == CastSpec /\ CastFairness

FairListenSpec == ListenSpec /\ ListenFairness

\* The calls of Listen alone: the listener is bound by the call and watched.
ListenCallInit == ListenInit /\ entry = "Listen"

FairListenCallSpec == ListenCallInit /\ [][NextListen]_vars /\ ListenFairness

FairDialSpec == DialSpec /\ DialFairness

\* ------------------------------------------------------------ the claims
RECURSIVE SumTo(_, _)
\* seq[1] + ... + seq[n]
SumTo(seq, n) == IF n = 0 THEN 0 ELSE seq[n] + SumTo(seq, n - 1)

\* The errors among what the DialContext calls returned, in order.
DialErrs == SelectSeq(results, LAMBDA r : r # "conn")

\* C1: an admitted connection is handed to handle at most once, and the
\* engine calls its Close exactly once, only after handle has returned or
\* panicked: never before, never twice, and always by the time the
\* connection's goroutine has ended, whatever the accept loop has done since.
C1_CloseOnceAfterHandle ==
    \A c \in Conns : status[c] = "admit" =>
        /\ handleCalls[c] <= 1
        /\ closeCalls[c] <= 1
        /\ closeCalls[c] = 1 => (handleCalls[c] = 1 /\ gpc[c] = "done")
        /\ gpc[c] = "done" => (handleCalls[c] = 1 /\ closeCalls[c] = 1)
        /\ (gpc[c] \in {"cleanup", "close"} /\ ~crashed) =>
               ENABLED (GoCleanup(c) \/ GoClose(c))

\* Listen has returned on cancellation, one connection was closed after its
\* handle panicked, and the handle of another connection is still running.
C1_Witness ==
    /\ lpc = "done"
    /\ ret = <<ctxErr>> /\ ctxErr # "none"
    /\ \E c, d \in Conns :
          /\ status[c] = "admit" /\ panicked[c]
          /\ gpc[c] = "done" /\ closeCalls[c] = 1
          /\ gpc[d] = "handle"

\* C2: a non-nil cleanup of an admitted connection runs exactly once, and
\* only after the connection's Close has been called.
C2_CleanupAfterClose ==
    \A c \in Conns : (status[c] = "admit" /\ cleanup[c]) =>
        /\ cleanupCalls[c] <= 1
        /\ cleanupCalls[c] = 1 => closeCalls[c] = 1
        /\ gpc[c] = "done" => cleanupCalls[c] = 1

\* C3: a rejected connection is never handed to handle, has no goroutine, is
\* closed by the accept loop before the loop goes on to its next iteration,
\* and handleErr is called for failed Accepts only.
C3_RejectedClosedNotHandled ==
    /\ \A c \in Conns : status[c] = "reject" =>
          /\ handleCalls[c] = 0
          /\ gpc[c] = "none"
          /\ closeCalls[c] = (IF lpc = "reject" /\ c = nconn THEN 0 ELSE 1)
    /\ Len(reported) <= acceptFails

\* The loop is about to call Accept again after a rejection.
C3_Witness ==
    /\ lpc = "accept"
    /\ \E c \in Conns : status[c] = "reject" /\ closeCalls[c] = 1

\* C4: when the context is done while Listen is in Accept, Listen returns
\* ctx.Err() with its listener closed (unless a panicking handle ends the
\* process first), even if no connection ever arrives.
C4_CancelUnblocksAccept ==
    (entry = "Listen" /\ lpc = "accept" /\ ctxErr # "none")
        ~> (crashed \/ (lpc = "done" /\ ret = <<ctxErr>> /\ listener = "closed"))

\* Listen has returned ctx.Err() without ever having accepted a connection,
\* after an Accept that failed.
C4_Witness ==
    /\ entry = "Listen"
    /\ lpc = "done"
    /\ ret = <<ctxErr>> /\ ctxErr # "none"
    /\ nconn = 0
    /\ acceptFails = 1
    /\ wpc = "done"

\* C5: when the context is done, a ListenWithListener called directly closes
\* its listener and returns.
C5_ListenerClosedWhenDone ==
    (entry = "ListenWithListener" /\ ~handleNil /\ ctxErr # "none")
        ~> (crashed \/ (lpc = "done" /\ listener = "closed"))

\* C6, in every state: each failed Accept has been reported exactly once,
\* but for the one being reported; a loop that has returned returned ctx.Err().
C6_Reported ==
    /\ Len(reported) = acceptFails - (IF lpc = "report" THEN 1 ELSE 0)
    /\ (lpc \in {"closing", "done"} /\ listener # "unbound" /\ ~handleNil) =>
           (ctxErr # "none" /\ ret = <<ctxErr>>)

\* C6, in every step: a failed Accept is followed by one call of handleErr
\* and the next cancellation check, and the loop is left only from a
\* cancellation check that sees the context done.
C6_Step ==
    /\ (lpc = "report" /\ lpc' # lpc) =>
           (lpc' = "check" /\ Len(reported') = Len(reported) + 1)
    /\ (lpc \in {"check", "accept", "report", "policy", "reject"}
            /\ lpc' \in {"closing", "done"}) =>
           (lpc = "check" /\ ctxErr # "none" /\ ret' = <<ctxErr>>)

\* C6: an Accept error never ends the loop: it is reported once through
\* handleErr and the loop goes on; once in its loop, Listen returns only from
\* the cancellation check, with the context's error.
C6_AcceptErrorsNeverFatal == [] C6_Reported /\ [][C6_Step]_vars

\* Listen has returned ctx.Err() after Accept failed at least twice.
C6_Witness ==
    /\ lpc = "done"
    /\ ret = <<ctxErr>> /\ ctxErr # "none"
    /\ acceptFails >= 2
    /\ Len(reported) = acceptFails

\* C7: when a dial attempt obtains a connection, it is the last attempt,
\* handle has been called exactly once, and Dial returns only after handle
\* has and the connection is closed; handle is called for no other reason.
C7_DialSucceedsOnce ==
    /\ dHandleCalls <= 1
    /\ dHandleCalls = 1 => (results # <<>> /\ results[Len(results)] = "conn")
    /\ \A k \in 1..Len(results) : results[k] = "conn" =>
          /\ k = Len(results)
          /\ Len(starts) = k
          /\ attempt = k
          /\ dHandleCalls = 1
          /\ dpc \in {"handle", "close", "done"}
          /\ dpc = "done" => dCloseCalls = 1

\* Dial has returned after two refused attempts and a third that connected.
C7_Witness ==
    /\ dpc = "done"
    /\ Len(results) = 3
    /\ results[1] # "conn" /\ results[2] # "conn" /\ results[3] = "conn"
    /\ ctxErr = "none"
    /\ dHandleCalls = 1

\* C8, in every state: the k-th attempt called timeout(k); each failed
\* attempt has been reported once, with its error; Dial has returned only
\* for a nil handle, a done context or a connection.
C8_Attempts ==
    /\ \A k \in 1..Len(timeoutCalls) : timeoutCalls[k] = k
    /\ Len(timeoutCalls) = Len(starts)
    /\ dpc \in {"dialing", "report", "wait"} => attempt = Len(timeoutCalls)
    /\ dpc = "check" => attempt = Len(timeoutCalls) + 1
    /\ reported = (IF dpc = "report"
                     THEN SubSeq(DialErrs, 1, Len(DialErrs) - 1)
                     ELSE DialErrs)
    /\ dpc = "done" =>
           \/ handleNil
           \/ ctxErr # "none"
           \/ (results # <<>> /\ results[Len(results)] = "conn")

\* C8, in every step: a failed attempt is followed by the check that starts
\* the next attempt, whose number is one more.
C8_Step ==
    (dpc \in {"report", "wait"} /\ dpc' # dpc) =>
        /\ dpc' \in {"wait", "check"}
        /\ dpc' = "check" => attempt' = attempt + 1

\* C8: attempt k calls timeout(k), each failure is reported once and followed
\* by attempt k + 1; without a connection or a done context Dial goes on.
C8_RetryForever == [] C8_Attempts /\ [][C8_Step]_vars

\* Every attempt the bound allows has failed and been reported, the context
\* is not done, and Dial is about to go on.
C8_Witness ==
    /\ dpc = "wait"
    /\ ctxErr = "none"
    /\ Len(reported) = MaxAttempts
    /\ Len(timeoutCalls) = MaxAttempts

\* C9: attempt n starts no sooner than timeout(1) + ... + timeout(n - 1)
\* after attempt 1 started.
C9_BackoffSpacing ==
    \A n \in 1..Len(starts) : starts[n] >= starts[1] + SumTo(durations, n - 1)

\* A third attempt has started after two attempts that were refused before
\* their deadlines, of two ticks each, had passed.
C9_Witness ==
    /\ Len(starts) = 3
    /\ results[1] = "refused" /\ results[2] = "refused"
    /\ durations[1] = 2 /\ durations[2] = 2
    /\ starts[3] = starts[1] + 4

\* C10, in every step: with the context done, a Dial that is at its
\* cancellation check or waiting after a failed attempt starts no attempt,
\* calls no handle, and returns only the wrapped ctx.Err().
C10_Step ==
    (ctxErr # "none" /\ dpc \in {"check", "wait"}) =>
        /\ starts' = starts
        /\ timeoutCalls' = timeoutCalls
        /\ dHandleCalls' = dHandleCalls
        /\ dpc' \in {"check", "wait", "done"}
        /\ dpc' = "done" => ret' = DialingErr(ctxErr)

\* C10: once the context is done, a Dial at its cancellation check or in its
\* wait after a failed attempt makes no attempt and calls no handle, and it
\* returns the wrapped ctx.Err() without the clock having to advance.
C10_CancelEndsDial ==
    /\ [][C10_Step]_vars
    /\ (ctxErr # "none" /\ dpc \in {"check", "wait"})
           ~> (dpc = "done" /\ ret = DialingErr(ctxErr) /\ dHandleCalls = 0)

\* Dial has returned the wrapped deadline error after a failed attempt, before
\* that attempt's deadline.
C10_Witness ==
    /\ dpc = "done"
    /\ ret = DialingErr("DeadlineExceeded")
    /\ results = <<"refused">>
    /\ reported = results
    /\ now < dialDeadline

\* C11: after a successful dial the connection is closed exactly once, only
\* after handle has returned or panicked, and a Dial that returns returns what
\* that Close returned: nil exactly when Close returned nil. (A panic of
\* handle goes on to Dial's caller once the connection is closed.)
C11_DialReturnsCloseResult ==
    /\ dCloseCalls <= 1
    /\ dCloseCalls = 1 <=> (dpc = "done" /\ dHandleCalls = 1)
    /\ dpc \in {"handle", "close"} => (dHandleCalls = 1 /\ dCloseCalls = 0)
    /\ dCloseCalls = 1 => dCloseErr \in CloseResults
    /\ (dCloseCalls = 1 /\ ~dPanicked) =>
           /\ ret = <<dCloseErr>>
           /\ ret = <<"nil">> <=> dCloseErr = "nil"
    /\ (dCloseCalls = 1 /\ dPanicked) => ret = <<"panic">>

\* Dial has returned the error of the Close that followed handle.
C11_Witness ==
    /\ dpc = "done"
    /\ dHandleCalls = 1
    /\ dCloseCalls = 1
    /\ ~dPanicked
    /\ ret = <<"close error">>

\* The fields of an ErrCastingMessage: its PeerID and the text of its error.
ErrPeerID(err) == err[2]
ErrText(err) == err[3]
IsCastingErr(err) == Len(err) = 3 /\ err[1] = "ErrCastingMessage"

\* The cause named in the text of an ErrCastingMessage: what follows
\* "error casting to peer=<peerID>: ".
ErrCauseText(err) == ErrText(err)[4]

\* C12: when the Directory lookup of Cast's destination returns an error, or
\* no error and a nil address, Cast returns an ErrCastingMessage whose PeerID
\* is the destination and whose cause is the lookup error, respectively the
\* missing-address cause, the two being different; nothing is sent to the
\* Outbound Sink, whatever the context and the sink are.
C12_LookupFailure ==
    (entry = "Cast" /\ cpc = "done" /\ (lookErr # "none" \/ peerAddr = <<>>)) =>
        /\ IsCastingErr(ret)
        /\ ErrPeerID(ret) = to
        /\ lookErr # "none" =>
              /\ ret = ErrCastingMessage(to, lookErr)
              /\ ErrCauseText(ret) = ErrorText(lookErr)
              /\ ret # ErrCastingMessage(to, "nil peer address")
        /\ lookErr = "none" =>
              /\ ret = ErrCastingMessage(to, "nil peer address")
              /\ ErrCauseText(ret) = "nil peer address"
              /\ \A e \in LookupErrors : ret # ErrCastingMessage(to, e)
        /\ messages = <<>>

\* A lookup error met with the context cancelled and the sink ready.
C12_Witness ==
    /\ entry = "Cast"
    /\ cpc = "done"
    /\ lookErr \in LookupErrors
    /\ ctxErr # "none"
    /\ sinkReady
    /\ ErrPeerID(ret) = to
    /\ messages = <<>>

\* Cast found an address for its destination.
Resolved == lookErr = "none" /\ peerAddr # <<>>

\* C13: when the Directory maps the destination to an address, the context
\* is not cancelled and the Outbound Sink accepts, Cast sends exactly one
\* request, whose destination is that address and whose message is a
\* version-1 message of kind Cast carrying body, and returns nil.
C13_CastSuccess ==
    (entry = "Cast" /\ cpc = "done" /\ Resolved) =>
        /\ ctxErr = "none" => ret = <<"nil">>
        /\ ret = <<"nil">> =>
              /\ Len(messages) = 1
              /\ messages[1].To = peerAddr[2]
              /\ peerAddr[1] = to
              /\ messages[1].Message.Version = "V1"
              /\ messages[1].Message.Variant = "Cast"
              /\ messages[1].Message.Body = body
              /\ events = <<>>

\* A Cast to peer "X", which the Directory maps to address "B", has returned
\* nil under an uncancelled context.
C13_Witness ==
    /\ entry = "Cast"
    /\ cpc = "done"
    /\ to = "X"
    /\ peerAddr = <<"X", "B">>
    /\ ctxErr = "none"
    /\ ret = <<"nil">>
    /\ Len(messages) = 1
    /\ messages[1].To = "B"
    /\ messages[1].Message.Body = body

\* C14: AcceptCast with to equal to the local identity and an uncancelled
\* context hands exactly one event whose message is body to the Event Sink
\* and returns nil; with to different from the local identity it returns an
\* ErrCastingMessage with PeerID = to and the no-forwarding cause, and the
\* Event Sink receives nothing, whatever the context and the sink are.
C14_AcceptCastLocalOnly ==
    entry = "AcceptCast" =>
        /\ messages = <<>>
        /\ to # me => events = <<>>
        /\ (cpc = "done" /\ to = me) =>
              /\ ctxErr = "none" => ret = <<"nil">>
              /\ ret = <<"nil">> =>
                    /\ Len(events) = 1
                    /\ events[1].Message = body
        /\ (cpc = "done" /\ to # me) =>
              /\ ret = ErrCastingMessage(to, "no peer available for forwarding")
              /\ ErrPeerID(ret) = to
              /\ ErrCauseText(ret) = "no peer available for forwarding"

\* An AcceptCast addressed to the local identity has handed over its event
\* and returned nil under an uncancelled context.
C14_Witness ==
    /\ entry = "AcceptCast"
    /\ cpc = "done"
    /\ to = me
    /\ ctxErr = "none"
    /\ ret = <<"nil">>
    /\ Len(events) = 1
    /\ events[1].Message = body

\* How many items the call has handed to its sinks.
Handed == Len(messages) + Len(events)

\* The call returned an error whose cause is the context's error.
CancelledRet == ctxErr # "none" /\ ret = ErrCastingMessage(to, ctxErr)

C15_Handoff ==
    /\ Handed <= 1
    /\ cpc # "done" => Handed = 0
    /\ cpc = "done" => (ret = <<"nil">> <=> Handed = 1)
    /\ (cpc = "done" /\ CancelledRet) => Handed = 0

\* C15: a call of Cast or AcceptCast hands at most one item to its sink; it
\* returns nil exactly when one item was handed over, and when it returns
\* an error of the cancellation cause nothing was handed over; a call that
\* waits in its select returns once the context is cancelled.
C15_ExactlyOnceCancellable ==
    /\ []C15_Handoff
    /\ (cpc = "select" /\ ctxErr # "none") ~> (cpc = "done")

\* A call that waited on a sink that could take nothing has returned the
\* cancellation error, nothing handed over.
C15_Witness ==
    /\ cpc = "done"
    /\ ~sinkReady
    /\ CancelledRet
    /\ entry = "Cast" => Resolved
    /\ entry = "AcceptCast" => to = me
    /\ Handed = 0

\* C16 as stated: whenever the Outbound Sink can take the request at the
\* time of the handoff, a Cast with a resolved destination hands it over and
\* returns nil, even if the context is already cancelled.
C16_SendWinsWhenSinkReady ==
    (entry = "Cast" /\ cpc = "done" /\ Resolved /\ sinkReady) => ret = <<"nil">>

\* One return out of Cast's select.
C16_Step ==
    (entry = "Cast" /\ cpc = "select" /\ cpc' = "done") =>
        /\ ret' = <<"nil">> \/ ret' = ErrCastingMessage(to, ctxErr)
        /\ ret' = <<"nil">> =>
              /\ sinkReady
              /\ messages' = <<MessageSend(peerAddr, body)>>
        /\ ret' # <<"nil">> =>
              /\ ctxErr # "none"
              /\ messages' = <<>>
        /\ ctxErr = "none" => ret' = <<"nil">>

\* What Cast's select can do next.
C16_Ready ==
    (entry = "Cast" /\ cpc = "select") =>
        /\ (sinkReady /\ ctxErr # "none") => (ENABLED CastSend /\ ENABLED CastCancelled)
        /\ (sinkReady /\ ctxErr = "none") => (ENABLED CastSend /\ ~ENABLED CastCancelled)
        /\ (~sinkReady /\ ctxErr # "none") => (~ENABLED CastSend /\ ENABLED CastCancelled)
        /\ (~sinkReady /\ ctxErr = "none") => (~ENABLED CastSend /\ ~ENABLED CastCancelled)

\* C16, amended: a Cast with a resolved destination fails with the
\* cancellation cause only if the context is done at the handoff, and then
\* sends nothing; it returns nil only by handing the request to a sink that
\* can take it; with the context not done it can only succeed; with the
\* context done and the sink able to take the request, either may happen.
C16_CancelOrSend == []C16_Ready /\ [][C16_Step]_vars

\* A Cast that returned the cancellation error while the sink could take
\* the request.
C16_Witness ==
    /\ entry = "Cast"
    /\ cpc = "done"
    /\ Resolved
    /\ sinkReady
    /\ CancelledRet
    /\ messages = <<>>

\* C17 as stated: over a Listen call, the watcher's close and the close at
\* the accept loop's exit never both invoke Close on the listener.
C17_CloseInvokedOnce == entry = "Listen" => lCloseCalls <= 1

\* The listener of a Listen call and the Close calls made on it.
C17_Closes ==
    entry = "Listen" =>
        /\ lCloseCalls <= 2
        /\ listener = "closed" <=> lCloseCalls >= 1
        /\ lCloseCalls = (IF wpc = "done" THEN 1 ELSE 0)
                           + (IF lpc = "done" /\ listener # "unbound" /\ ~handleNil THEN 1 ELSE 0)
        /\ (lpc = "done" /\ listener # "unbound" /\ ~handleNil) =>
               (ctxErr # "none" /\ ret = <<ctxErr>>)

\* C17, amended: the listener of a Listen call goes from open to closed once
\* and stays closed, but Close is invoked on it by the watcher and again by
\* the deferred close of the accept loop, at most twice in all: both invoke
\* it when the loop has returned on cancellation and the watcher has run,
\* and the second invocation changes neither the listener nor the result.
C17_ClosedOnceCloseCalledTwice ==
    /\ []C17_Closes
    /\ [][/\ listener = "closed" => listener' = "closed"
          /\ lCloseCalls' # lCloseCalls => (lCloseCalls' = lCloseCalls + 1 /\ listener' = "closed")
          /\ (lCloseCalls = 1 /\ lCloseCalls' = 2) => ret' = ret]_vars

\* Listen has returned on cancellation after the watcher closed the
\* listener: Close was invoked twice.
C17_Witness ==
    /\ entry = "Listen"
    /\ lpc = "done"
    /\ wpc = "done"
    /\ ret = <<ctxErr>>
    /\ listener = "closed"
    /\ lCloseCalls = 2

\* C18 as stated: once the context is done, Accept returns no further
\* connection, so none accepted after the cancellation reaches handle.
C18_NoAcceptAfterCancel == [][ctxErr # "none" => nconn' = nconn]_vars

\* At most one connection is accepted with the context done, and it is the
\* last one accepted.
C18_Late ==
    /\ lateAccepts <= 1
    /\ lateAccepts <= nconn
    /\ lateAccepts = 1 => ctxErr # "none"
    /\ (lateAccepts = 1 /\ ~crashed) => lpc \in {"check", "policy", "reject", "closing", "done"}

\* One step of a loop whose context is done.
C18_Step ==
    /\ (ctxErr # "none" /\ nconn' # nconn) =>
           /\ lpc = "accept"
           /\ listener = "open"
           /\ lateAccepts = 0
           /\ nconn' = nconn + 1
    /\ (ctxErr # "none" /\ lpc # "accept") => nconn' = nconn
    /\ (ctxErr # "none" /\ lpc = "check") => lpc' \in {"check", "closing"}
    /\ lpc \in {"closing", "done"} => lpc' \in {"closing", "done"}

\* C18, amended: after the context is done the loop accepts at most one more
\* connection, the one returned by an Accept that was already pending on a
\* still open listener when the context became done; that connection is
\* admitted and handled like any other. Once the loop's check runs with the
\* context done the loop returns and accepts nothing more.
C18_AtMostOneLateAccept == []C18_Late /\ [][C18_Step]_vars

\* A connection accepted after the cancellation was handed to handle.
C18_Witness ==
    /\ lateAccepts = 1
    /\ status[nconn] = "admit"
    /\ handleCalls[nconn] = 1

\* A step of Listen / ListenWithListener itself, not of a goroutine it started.
LoopStep ==
    \/ BindFail \/ Bind \/ NilHandle \/ EnterLoop
    \/ CheckDone \/ CheckNotDone \/ LoopExitClose
    \/ AcceptConn \/ AcceptTransient \/ AcceptClosed \/ ReportAcceptError
    \/ PolicyAdmit \/ PolicyReject \/ RejectClose

\* The connections whose handle is running.
Handling == {c \in Conns : gpc[c] = "handle"}

\* The loop is waiting for nothing but a connection; each handler can start
\* and can return whatever the others do.
C19_NoWait ==
    ~crashed =>
        /\ lpc \notin {"none", "done", "accept"} => ENABLED LoopStep
        /\ (lpc = "accept" /\ listener = "open" /\ nconn < MaxConns) => ENABLED AcceptConn
        /\ (lpc = "accept" /\ listener = "closed") => ENABLED AcceptClosed
        /\ \A c \in Conns :
              /\ gpc[c] = "spawned" => ENABLED GoHandle(c)
              /\ gpc[c] = "handle" => ENABLED GoHandleReturn(c)

\* A step of the loop leaves the running handlers running, and a step of a
\* handler leaves the loop and the other handlers where they are.
C19_Step ==
    /\ lpc' # lpc => \A c \in Handling : gpc'[c] = "handle"
    /\ \A c \in Conns :
          gpc[c] # "none" /\ gpc'[c] # gpc[c] =>
              /\ lpc' = lpc
              /\ \A d \in Conns \ {c} : gpc'[d] = gpc[d]

\* C19: the accept loop never waits for a handler: with the handle callbacks
\* of any number of admitted connections running, the loop can perform
\* another Accept and start handling a new connection, and the handlers of
\* different connections run independently of one another.
C19_LoopNeverWaitsForHandler == []C19_NoWait /\ [][C19_Step]_vars

\* Every connection the model has is in its handle, none has returned, and
\* the loop is in Accept again.
C19_Witness ==
    /\ ~crashed
    /\ lpc = "accept"
    /\ nconn = MaxConns
    /\ \A c \in Conns : gpc[c] = "handle" /\ handleCalls[c] = 1 /\ closeCalls[c] = 0

\* C20: the cleanup function the policy returns with a rejection is never
\* called; a cleanup function is called only for a connection that was
\* admitted with one and handed to handle.
C20_NoCleanupOnReject ==
    \A c \in Conns :
        /\ status[c] = "reject" => cleanupCalls[c] = 0
        /\ cleanupCalls[c] >= 1 =>
              /\ status[c] = "admit"
              /\ cleanup[c]
              /\ handleCalls[c] = 1
              /\ cleanupCalls[c] = 1

\* The policy rejected a connection and returned a cleanup function with
\* the rejection; the connection was closed and Listen has returned.
C20_Witness ==
    /\ lpc = "done"
    /\ \E c \in Conns :
          /\ status[c] = "reject"
          /\ cleanup[c]
          /\ closeCalls[c] = 1
          /\ cleanupCalls[c] = 0

====
